---- MODULE Spec2Model ----
(***************************************************************************)
(* A model of dataformats::TriggerRecordHeader: a fixed header struct      *)
(* followed by an array of ComponentRequest objects, held in one flat      *)
(* buffer that the object either allocated with malloc (alloc_ == true)    *)
(* or was handed by its caller (alloc_ == false).                          *)
(*                                                                         *)
(* The state is the C heap (which blocks are handed out, what they hold),  *)
(* one caller-owned buffer, and the TriggerRecordHeader objects that exist *)
(* with their two data members data_arr_ and alloc_.                       *)
(*                                                                         *)
(* Beside it, dataformats::GeoID: a pair of unsigned numbers with the      *)
(* comparison operator that lets it be the key of a std::map.              *)
(***************************************************************************)
EXTENDS Integers, Sequences, FiniteSets, TLC

\* ------------------------------------------------------------------ bounds

NumInstances == 2         \* TriggerRecordHeader objects that can exist at once
NumHeapBlocks == 2        \* blocks the allocator can hand out before it is exhausted
MaxComponents == 2        \* longest std::vector<ComponentRequest> given to the constructor
NumRequestValues == 2     \* distinct ComponentRequest values
MaxFieldValue == 1        \* largest value given to a setter
MaxMallocs == 2           \* calls of malloc in one run
MaxFrees == 3             \* calls of free in one run
MaxStores == 1            \* stores through setters and operator[] in one run
NumGeoIDs == 3            \* GeoID objects that are compared with each other
MaxGeoValue == 2          \* largest apa_number and link_number given to a GeoID

\* -------------------------------------------------------- program constants

TRIGGER_RECORD_HEADER_MAGIC == 858997828   \* 0x33334444
TRIGGER_RECORD_HEADER_VERSION == 1
SizeofTriggerRecordHeaderData == 48        \* 4+4+8+8+8+4+4+2 and a 48-bit bitfield
SizeofComponentRequest == 24               \* a GeoID and two 64-bit window fields
ErrorBitsWidth == 32                       \* std::bitset<32>
Indeterminate == -1                        \* stands for the value of bytes nothing has written

\* ------------------------------------------------------------------ memory

NULL == 0
HeapAddrs == 1..NumHeapBlocks
ExtAddr == NumHeapBlocks + 1               \* the buffer the caller owns
Addrs == HeapAddrs \cup {ExtAddr}
Instances == 1..NumInstances
ComponentRequests == 1..NumRequestValues

RECURSIVE SeqsUpTo(_, _)
SeqsUpTo(S, n) ==
    IF n = 0 THEN {<<>>}
    ELSE LET shorter == SeqsUpTo(S, n - 1)
         IN  shorter \cup {Append(s, x) : s \in {t \in shorter : Len(t) = n - 1}, x \in S}

ComponentVectors == SeqsUpTo(ComponentRequests, MaxComponents)

\* struct TriggerRecordHeaderData, in layout order (the padding bitfield left
\* out). The error_bits word is held as the set of positions of its 1 bits.
TriggerRecordHeaderData(tn, ts, n, rn, eb, tt) ==
    [trigger_record_header_marker |-> TRIGGER_RECORD_HEADER_MAGIC,
     version |-> TRIGGER_RECORD_HEADER_VERSION,
     trigger_number |-> tn,
     trigger_timestamp |-> ts,
     num_requested_components |-> n,
     run_number |-> rn,
     error_bits |-> eb,
     trigger_type |-> tt]

\* A block's contents: the header at offset 0 and the ComponentRequest slots
\* that fit in the block after it.
Block(h, es) == [hdr |-> h, elems |-> es]

\* The header `TriggerRecordHeaderData header;` declares: the nested struct
\* gives trigger_number, trigger_timestamp, num_requested_components,
\* run_number and trigger_type no initialiser, so their bytes are
\* indeterminate; error_bits is initialised to 0.
DefaultHeader ==
    TriggerRecordHeaderData(Indeterminate, Indeterminate, Indeterminate, Indeterminate,
                            {}, Indeterminate)

\* A heap block that is not handed out.
ReleasedBlock == Block(DefaultHeader, <<>>)

\* What a read of released memory may find where the count and the
\* components were.
StaleBlocks ==
    {Block([DefaultHeader EXCEPT !.num_requested_components = Len(es)], es) :
        es \in ComponentVectors}

VARIABLES
    live,        \* live[i]: object i has been constructed and not yet destroyed
    data_arr_,   \* data_arr_[i]: the object's buffer pointer
    alloc_,      \* alloc_[i]: whether the object owns the buffer
    heap,        \* heap[a]: "used" from malloc until free, else "free"
    mem,         \* mem[a]: what block a holds
    released,    \* released[a]: calls of free(a) since malloc last returned a
    nmalloc,     \* successful calls of malloc
    nfree,       \* calls of free
    nstore,      \* stores made through setters and operator[]
    fault,       \* "none", or how the process died
    lastOp,      \* the operation that ran last, with its arguments and outcome
    geoid,       \* geoid[k]: the members of GeoID object k
    less         \* less.ret[j][k]: what geoid[j] < geoid[k] returned, once less.valid

vars == <<live, data_arr_, alloc_, heap, mem, released, nmalloc, nfree, nstore, fault, lastOp,
          geoid, less>>

trhVars == <<live, data_arr_, alloc_, heap, mem, released, nmalloc, nfree, nstore, fault, lastOp>>
geoVars == <<geoid, less>>


\* ------------------------------------------------------------- the C heap

\* Whether address a holds memory that may be read and written.
Usable(a) == a = ExtAddr \/ (a \in HeapAddrs /\ heap[a] = "used")

\* What a read through pointer a may see: the block's contents, or anything
\* at all when the block has been released.
Read(a) == IF Usable(a) THEN {mem[a]} ELSE StaleBlocks

\* What malloc may return: a block that is not handed out, or NULL.
MallocResults == {a \in HeapAddrs : heap[a] = "free"} \cup {NULL}

\* The ComponentRequest slots of a block of `size` bytes.
SlotsIn(size) == (size - SizeofTriggerRecordHeaderData) \div SizeofComponentRequest

\* memcpy(dst, src, size) out of a block holding c: the header and the first
\* SlotsIn(size) slots; slots read past the end of the source block hold
\* whatever lies behind it.
MemcpyFrom(c, size) ==
    LET n == SlotsIn(size)
        have == Len(c.elems)
    IN  IF n <= have
        THEN {Block(c.hdr, SubSeq(c.elems, 1, n))}
        ELSE {Block(c.hdr, c.elems \o behind) :
                 behind \in [1..(n - have) -> ComponentRequests]}

\* The record kept of the operation that ran last: its name, the object it
\* ran on, the object it read from (or 0), the buffer pointer it was given or
\* obtained, the index it was given, the value it returned or stored, whether
\* it read or wrote outside the buffer, the vector it was given, and the
\* error it raised. No operation of the class raises one.
Op(name, i, j, buf, idx, ret, oob) ==
    [op |-> name, inst |-> i, src |-> j, buf |-> buf, idx |-> idx, ret |-> ret,
     oob |-> oob, arg |-> <<>>, error |-> "none"]

\* malloc returned block p, and the constructor or assignment filled it with c.
Allocated(i, p, c) ==
    /\ data_arr_' = [data_arr_ EXCEPT ![i] = p]
    /\ alloc_' = [alloc_ EXCEPT ![i] = TRUE]
    /\ live' = [live EXCEPT ![i] = TRUE]
    /\ heap' = [heap EXCEPT ![p] = "used"]
    /\ mem' = [mem EXCEPT ![p] = c]
    /\ released' = [released EXCEPT ![p] = 0]
    /\ nmalloc' = nmalloc + 1
    /\ UNCHANGED <<nfree, nstore, fault>>

\* malloc returned NULL: the caller stores it, sets alloc_ and hands it to
\* memcpy as the destination, which ends the process.
AllocationFailed(i) ==
    /\ data_arr_' = [data_arr_ EXCEPT ![i] = NULL]
    /\ alloc_' = [alloc_ EXCEPT ![i] = TRUE]
    /\ fault' = "null_write"
    /\ UNCHANGED <<live, heap, mem, released, nmalloc, nfree, nstore>>

\* free(p). Releasing a block that is not handed out (a second free, or a
\* pointer malloc never returned) is undefined: the allocator may abort the
\* process or carry on.
Free(p) ==
    /\ nfree' = nfree + 1
    /\ released' = [released EXCEPT ![p] = released[p] + 1]
    /\ IF p \in HeapAddrs /\ heap[p] = "used"
       THEN /\ heap' = [heap EXCEPT ![p] = "free"]
            /\ mem' = [mem EXCEPT ![p] = ReleasedBlock]
            /\ fault' = "none"
       ELSE /\ UNCHANGED <<heap, mem>>
            /\ fault' \in {"none", "invalid_free"}


\* -------------------------------------------------------------- the object

\* header_(): the buffer seen as a TriggerRecordHeaderData.
header_(i) == mem[data_arr_[i]].hdr

\* An object one may use: constructed, and its buffer not released.
Valid(i) == live[i] /\ Usable(data_arr_[i])

\* As TotalSizeBytes, the size of the header struct forgotten.
TotalSizeBytesNoHeader(h) == h.num_requested_components * SizeofComponentRequest

\* get_total_size_bytes(), from the header it reads.
TotalSizeBytes(h) ==
    h.num_requested_components * SizeofComponentRequest + SizeofTriggerRecordHeaderData

get_total_size_bytes(i) == TotalSizeBytes(header_(i))
get_num_requested_components(i) == header_(i).num_requested_components
get_storage_location(i) == data_arr_[i]
get_trigger_number(i) == header_(i).trigger_number
get_trigger_timestamp(i) == header_(i).trigger_timestamp
get_run_number(i) == header_(i).run_number
get_trigger_type(i) == header_(i).trigger_type
get_error_bits(i) == header_(i).error_bits
get_header(i) == header_(i)

\* What the constructor from a vector writes into its buffer: a default
\* constructed header with num_requested_components set to the vector's
\* size, then the components in the vector's order.
\* As BuiltBlock, the write offset never advanced: every component lands in
\* the first slot and the other slots are never written.
BuiltBlockOffsetStuck(components) ==
    Block([DefaultHeader EXCEPT !.num_requested_components = Len(components)],
          [k \in 1..Len(components) |->
              IF k = 1 THEN components[Len(components)] ELSE Indeterminate])

BuiltBlock(components) ==
    Block([DefaultHeader EXCEPT !.num_requested_components = Len(components)], components)

\* TriggerRecordHeader(std::vector<ComponentRequest> components)
Build(i, components) ==
    /\ fault = "none" /\ ~live[i] /\ nmalloc < MaxMallocs
    /\ \E p \in MallocResults :
          /\ IF p = NULL THEN AllocationFailed(i)
                         ELSE Allocated(i, p, BuiltBlock(components))
          /\ lastOp' = [Op("Build", i, 0, p, 0, 0, FALSE) EXCEPT !.arg = components]

\* As WrapBorrow, alloc_ set as in the copying branch.
WrapBorrowOwning(i, buf) ==
    /\ fault = "none" /\ ~live[i]
    /\ data_arr_' = [data_arr_ EXCEPT ![i] = buf]
    /\ alloc_' = [alloc_ EXCEPT ![i] = TRUE]
    /\ live' = [live EXCEPT ![i] = TRUE]
    /\ lastOp' = Op("WrapBorrow", i, 0, buf, 0, 0, FALSE)
    /\ UNCHANGED <<heap, mem, released, nmalloc, nfree, nstore, fault>>

\* TriggerRecordHeader(void* buffer, bool copy_from_buffer) with
\* copy_from_buffer == false.
WrapBorrow(i, buf) ==
    /\ fault = "none" /\ ~live[i]
    /\ data_arr_' = [data_arr_ EXCEPT ![i] = buf]
    /\ alloc_' = [alloc_ EXCEPT ![i] = FALSE]
    /\ live' = [live EXCEPT ![i] = TRUE]
    /\ lastOp' = Op("WrapBorrow", i, 0, buf, 0, 0, FALSE)
    /\ UNCHANGED <<heap, mem, released, nmalloc, nfree, nstore, fault>>

\* The copy_from_buffer == true branch: the size is read from the buffer's
\* own header, a block of that size is allocated and filled from the buffer.
\* Object i receives the copy; `name` and j say on whose behalf.
CopyFromBuffer(name, i, j, buf) ==
    /\ fault = "none" /\ nmalloc < MaxMallocs
    /\ \E src \in Read(buf), p \in MallocResults :
          LET size == TotalSizeBytes(src.hdr)
          IN  /\ IF p = NULL
                 THEN AllocationFailed(i)
                 ELSE \E c \in MemcpyFrom(src, size) : Allocated(i, p, c)
              /\ lastOp' = Op(name, i, j, buf, 0, 0, SlotsIn(size) > Len(src.elems))

\* TriggerRecordHeader(void* buffer, true)
WrapCopy(i, buf) ==
    /\ ~live[i]
    /\ CopyFromBuffer("WrapCopy", i, 0, buf)

\* TriggerRecordHeader(TriggerRecordHeader const& other)
CopyConstruct(i, j) ==
    /\ ~live[i] /\ live[j] /\ i # j
    /\ CopyFromBuffer("CopyConstruct", i, j, data_arr_[j])

\* operator=(TriggerRecordHeader const& other)
CopyAssign(i, j) ==
    /\ live[i] /\ live[j]
    /\ IF i = j
       THEN /\ fault = "none"
            /\ lastOp' = Op("CopyAssign", i, j, data_arr_[j], 0, 0, FALSE)
            /\ UNCHANGED <<live, data_arr_, alloc_, heap, mem, released, nmalloc, nfree,
                           nstore, fault>>
       ELSE CopyFromBuffer("CopyAssign", i, j, data_arr_[j])

\* The defaulted move operations copy both members and leave the source as
\* it was.
MoveMembers(i, j) ==
    /\ data_arr_' = [data_arr_ EXCEPT ![i] = data_arr_[j]]
    /\ alloc_' = [alloc_ EXCEPT ![i] = alloc_[j]]

\* TriggerRecordHeader(TriggerRecordHeader&&) = default
MoveConstruct(i, j) ==
    /\ fault = "none" /\ ~live[i] /\ live[j] /\ i # j
    /\ MoveMembers(i, j)
    /\ live' = [live EXCEPT ![i] = TRUE]
    /\ lastOp' = Op("MoveConstruct", i, j, data_arr_[j], 0, 0, FALSE)
    /\ UNCHANGED <<heap, mem, released, nmalloc, nfree, nstore, fault>>

\* operator=(TriggerRecordHeader&&) = default
MoveAssign(i, j) ==
    /\ fault = "none" /\ live[i] /\ live[j]
    /\ MoveMembers(i, j)
    /\ lastOp' = Op("MoveAssign", i, j, data_arr_[j], 0, 0, FALSE)
    /\ UNCHANGED <<live, heap, mem, released, nmalloc, nfree, nstore, fault>>

\* ~TriggerRecordHeader(). The storage of a destroyed object is shown as
\* NULL and false.
Destroy(i) ==
    /\ fault = "none" /\ live[i]
    /\ IF alloc_[i]
       THEN nfree < MaxFrees /\ Free(data_arr_[i])
       ELSE UNCHANGED <<heap, mem, released, nfree, fault>>
    /\ live' = [live EXCEPT ![i] = FALSE]
    /\ data_arr_' = [data_arr_ EXCEPT ![i] = NULL]
    /\ alloc_' = [alloc_ EXCEPT ![i] = FALSE]
    /\ lastOp' = Op("Destroy", i, 0, data_arr_[i], 0, 0, FALSE)
    /\ UNCHANGED <<nmalloc, nstore>>


\* -------------------------------------------------------- header accessors

\* A store through header_() into member f. A store into released memory is
\* lost.
StoreHeader(i, f, v) ==
    /\ fault = "none" /\ live[i] /\ nstore < MaxStores
    /\ mem' = IF Usable(data_arr_[i])
              THEN [mem EXCEPT ![data_arr_[i]].hdr[f] = v]
              ELSE mem
    /\ nstore' = nstore + 1
    /\ UNCHANGED <<live, data_arr_, alloc_, heap, released, nmalloc, nfree, fault>>

set_trigger_number(i, v) ==
    /\ StoreHeader(i, "trigger_number", v)
    /\ lastOp' = Op("set_trigger_number", i, 0, data_arr_[i], 0, v, FALSE)

set_trigger_timestamp(i, v) ==
    /\ StoreHeader(i, "trigger_timestamp", v)
    /\ lastOp' = Op("set_trigger_timestamp", i, 0, data_arr_[i], 0, v, FALSE)

set_run_number(i, v) ==
    /\ StoreHeader(i, "run_number", v)
    /\ lastOp' = Op("set_run_number", i, 0, data_arr_[i], 0, v, FALSE)

set_trigger_type(i, v) ==
    /\ StoreHeader(i, "trigger_type", v)
    /\ lastOp' = Op("set_trigger_type", i, 0, data_arr_[i], 0, v, FALSE)

\* The 32-bit error_bits word is held as the set of the positions of its 1
\* bits, a std::bitset<32> as a function from position to bool.
BitPositions == 0..(ErrorBitsWidth - 1)

\* std::bitset<32>(unsigned long): bit k of the word becomes bits[k].
BitsetOf(word) == [k \in BitPositions |-> k \in word]

\* std::bitset<32>::to_ulong(), stored into a uint32_t.
to_ulong(bits) == {k \in BitPositions : bits[k]}

\* As BitAssigned, the bit or-ed in whatever the value.
BitAssignedOr(bits, bit, value) == [bits EXCEPT ![bit] = TRUE]

\* bits[bit] = value
BitAssigned(bits, bit, value) == [bits EXCEPT ![bit] = value]

\* get_error_bits() as a bitset, and get_error_bit(bit)
ErrorBitset(i) == BitsetOf(get_error_bits(i))
get_error_bit(i, bit) == ErrorBitset(i)[bit]

\* set_error_bits(std::bitset<32> bits)
set_error_bits(i, bits) ==
    /\ StoreHeader(i, "error_bits", to_ulong(bits))
    /\ lastOp' = Op("set_error_bits", i, 0, data_arr_[i], 0, 0, FALSE)

\* set_error_bit(size_t bit, bool value): read the word, assign the bit,
\* write the word back.
set_error_bit(i, bit, value) ==
    /\ live[i]
    /\ \E c \in Read(data_arr_[i]) :
          LET bits == BitAssigned(BitsetOf(c.hdr.error_bits), bit, value)
          IN  /\ StoreHeader(i, "error_bits", to_ulong(bits))
              /\ lastOp' = Op("set_error_bit", i, 0, data_arr_[i], bit,
                              IF value THEN 1 ELSE 0, FALSE)

\* ------------------------------------------------------- component access

\* *(reinterpret_cast<ComponentRequest*>(header_() + 1) + idx) read out of a
\* block holding c: the slot when the block has one at idx, else whatever
\* lies behind the block.
SlotValues(c, idx) ==
    IF idx < Len(c.elems) THEN {c.elems[idx + 1]} ELSE ComponentRequests

\* at(size_t idx): the comparison of idx with num_requested_components has
\* an empty body, so the slot is read whatever idx is.
at(i, idx) ==
    /\ fault = "none" /\ live[i]
    /\ \E c \in Read(data_arr_[i]) : \E v \in SlotValues(c, idx) :
          lastOp' = Op("at", i, 0, data_arr_[i], idx, v, idx >= Len(c.elems))
    /\ UNCHANGED <<live, data_arr_, alloc_, heap, mem, released, nmalloc, nfree, nstore, fault>>

\* operator[](size_t idx), the reference it returns being read.
OperatorIndex(i, idx) ==
    /\ fault = "none" /\ live[i]
    /\ \E c \in Read(data_arr_[i]) : \E v \in SlotValues(c, idx) :
          lastOp' = Op("operator[]", i, 0, data_arr_[i], idx, v, idx >= Len(c.elems))
    /\ UNCHANGED <<live, data_arr_, alloc_, heap, mem, released, nmalloc, nfree, nstore, fault>>

\* (*this)[idx] = v: a store through the reference operator[] returns. A
\* store outside the block, or into released memory, is lost.
OperatorIndexStore(i, idx, v) ==
    /\ fault = "none" /\ live[i] /\ nstore < MaxStores
    /\ nstore' = nstore + 1
    /\ LET a == data_arr_[i]
           inside == Usable(a) /\ idx < Len(mem[a].elems)
       IN  /\ mem' = IF inside THEN [mem EXCEPT ![a].elems[idx + 1] = v] ELSE mem
           /\ lastOp' = Op("operator[]=", i, 0, a, idx, v, ~inside)
    /\ UNCHANGED <<live, data_arr_, alloc_, heap, released, nmalloc, nfree, fault>>

\* ---------------------------------------------------------------- GeoID

GeoIDs == 1..NumGeoIDs
GeoValues == 0..MaxGeoValue

GeoID(apa, link) == [apa_number |-> apa, link_number |-> link]

\* A GeoID as its member initialisers leave it.
DefaultGeoID == GeoID(0, 0)

\* std::tuple's operator< on tuples of equal length: the first position,
\* from the left, where either side is less than the other decides; equal
\* tuples are not less.
RECURSIVE TupleLess(_, _)
TupleLess(t, u) ==
    IF t = <<>> THEN FALSE
    ELSE IF Head(t) < Head(u) THEN TRUE
    ELSE IF Head(u) < Head(t) THEN FALSE
    ELSE TupleLess(Tail(t), Tail(u))

\* GeoID::operator< with the apa_number alone in the tuples.
OperatorLessApaOnly(a, b) == TupleLess(<<a.apa_number>>, <<b.apa_number>>)

\* GeoID::operator<.
OperatorLess(a, b) ==
    TupleLess(<<a.apa_number, a.link_number>>, <<b.apa_number, b.link_number>>)

\* No comparison evaluated since the objects were last written.
NotCompared == [valid |-> FALSE, ret |-> [j \in GeoIDs |-> [k \in GeoIDs |-> FALSE]]]

InitGeoID ==
    /\ geoid = [k \in GeoIDs |-> DefaultGeoID]
    /\ less = NotCompared

\* The caller writes the two members of GeoID object k.
AssignGeoID(k, apa, link) ==
    /\ geoid' = [geoid EXCEPT ![k] = GeoID(apa, link)]
    /\ less' = NotCompared
    /\ UNCHANGED trhVars

\* The caller evaluates geoid[j] < geoid[k] for every two of its objects,
\* as a sorted container does with its keys.
CompareGeoIDs ==
    /\ ~less.valid
    /\ less' = [valid |-> TRUE,
                ret |-> [j \in GeoIDs |-> [k \in GeoIDs |-> OperatorLess(geoid[j], geoid[k])]]]
    /\ UNCHANGED geoid
    /\ UNCHANGED trhVars


\* ------------------------------------------------------------ the program

\* What the caller's buffer may hold to begin with: a header written by a
\* producer, announcing n components, and the components that are really
\* there, the first `have` of 1, 2, ..., n: all n of them, or fewer when the
\* buffer was cut short.
CallerBlocks ==
    UNION {{Block(TriggerRecordHeaderData(0, 0, n, 0, {}, 0),
                  [k \in 1..have |-> ((k - 1) % NumRequestValues) + 1]) :
               have \in 0..n} : n \in 0..MaxComponents}

Init ==
    /\ live = [i \in Instances |-> FALSE]
    /\ data_arr_ = [i \in Instances |-> NULL]
    /\ alloc_ = [i \in Instances |-> FALSE]
    /\ heap = [a \in HeapAddrs |-> "free"]
    /\ \E b \in CallerBlocks :
          mem = [a \in Addrs |-> IF a = ExtAddr THEN b ELSE ReleasedBlock]
    /\ released = [a \in Addrs |-> 0]
    /\ nmalloc = 0
    /\ nfree = 0
    /\ nstore = 0
    /\ fault = "none"
    /\ lastOp = Op("none", 0, 0, NULL, 0, 0, FALSE)
    /\ InitGeoID

\* The buffers a caller can hand to the constructor from a pointer: its own,
\* and the storage location of an object it may use.
CallerPointers == {ExtAddr} \cup {get_storage_location(j) : j \in {k \in Instances : Valid(k)}}

FieldValues == 0..MaxFieldValue
Indices == 0..MaxComponents

ErrorBitsets == {BitsetOf({}), BitsetOf({0}), BitsetOf({ErrorBitsWidth - 1}), BitsetOf(BitPositions)}

\* Construction, copy, move and destruction.
Next ==
    \/ \E i \in Instances, components \in ComponentVectors : Build(i, components) /\ UNCHANGED geoVars
    \/ \E i \in Instances, buf \in CallerPointers : WrapBorrow(i, buf) /\ UNCHANGED geoVars
    \/ \E i \in Instances, buf \in CallerPointers : WrapCopy(i, buf) /\ UNCHANGED geoVars
    \/ \E i, j \in Instances : CopyConstruct(i, j) /\ UNCHANGED geoVars
    \/ \E i, j \in Instances : CopyAssign(i, j) /\ UNCHANGED geoVars
    \/ \E i, j \in Instances : MoveConstruct(i, j) /\ UNCHANGED geoVars
    \/ \E i, j \in Instances : MoveAssign(i, j) /\ UNCHANGED geoVars
    \/ \E i \in Instances : Destroy(i) /\ UNCHANGED geoVars

Spec == Init /\ [][Next]_vars

\* One object, from its construction on, with the accessors of the
\* components.
NextData ==
    \/ \E i \in {1}, components \in ComponentVectors : Build(i, components) /\ UNCHANGED geoVars
    \/ \E i \in {1} : WrapBorrow(i, ExtAddr) /\ UNCHANGED geoVars
    \/ \E i \in {1}, idx \in Indices : at(i, idx) /\ UNCHANGED geoVars
    \/ \E i \in {1}, idx \in Indices : OperatorIndex(i, idx) /\ UNCHANGED geoVars
    \/ \E i \in {1}, idx \in Indices, v \in ComponentRequests :
          OperatorIndexStore(i, idx, v) /\ UNCHANGED geoVars

SpecData == Init /\ [][NextData]_vars

\* A source object, built or borrowing, and an object constructed from a
\* pointer to the caller's buffer or to the source's storage, up to their
\* destruction.
NextWrap ==
    \/ \E i \in {1}, components \in ComponentVectors : Build(i, components) /\ UNCHANGED geoVars
    \/ \E i \in {1, 2}, buf \in CallerPointers : WrapBorrow(i, buf) /\ UNCHANGED geoVars
    \/ \E i \in {2}, buf \in CallerPointers : WrapCopy(i, buf) /\ UNCHANGED geoVars
    \/ \E i \in {1, 2} : Destroy(i) /\ UNCHANGED geoVars

SpecWrap == Init /\ [][NextWrap]_vars

\* The error words a producer may have left in the caller's buffer.
ErrorWords == {{}, {0}, {ErrorBitsWidth - 1}, {5, 20}, BitPositions}

\* As Init, the caller's buffer being whole and holding any of the error words.
InitErrorBits ==
    /\ live = [i \in Instances |-> FALSE]
    /\ data_arr_ = [i \in Instances |-> NULL]
    /\ alloc_ = [i \in Instances |-> FALSE]
    /\ heap = [a \in HeapAddrs |-> "free"]
    /\ \E b \in {c \in CallerBlocks : Len(c.elems) = c.hdr.num_requested_components},
          w \in ErrorWords :
          mem = [a \in Addrs |-> IF a = ExtAddr THEN [b EXCEPT !.hdr.error_bits = w]
                                                ELSE ReleasedBlock]
    /\ released = [a \in Addrs |-> 0]
    /\ nmalloc = 0
    /\ nfree = 0
    /\ nstore = 0
    /\ fault = "none"
    /\ lastOp = Op("none", 0, 0, NULL, 0, 0, FALSE)
    /\ InitGeoID

\* One object over the caller's buffer, with the accessors of the header
\* members.
NextErrorBits ==
    \/ \E i \in {1} : WrapBorrow(i, ExtAddr) /\ UNCHANGED geoVars
    \/ \E i \in {1}, v \in FieldValues : set_trigger_number(i, v) /\ UNCHANGED geoVars
    \/ \E i \in {1}, v \in FieldValues : set_trigger_timestamp(i, v) /\ UNCHANGED geoVars
    \/ \E i \in {1}, v \in FieldValues : set_run_number(i, v) /\ UNCHANGED geoVars
    \/ \E i \in {1}, v \in FieldValues : set_trigger_type(i, v) /\ UNCHANGED geoVars
    \/ \E i \in {1}, bits \in ErrorBitsets : set_error_bits(i, bits) /\ UNCHANGED geoVars
    \/ \E i \in {1}, bit \in BitPositions, value \in BOOLEAN :
          set_error_bit(i, bit, value) /\ UNCHANGED geoVars

SpecErrorBits == InitErrorBits /\ [][NextErrorBits]_vars

\* As Init, the caller's buffer holding a header and no components.
InitNoComponents == Init /\ mem[ExtAddr].hdr.num_requested_components = 0

\* The GeoID objects, written and compared by their caller.
NextGeoID ==
    \/ \E k \in GeoIDs, apa \in GeoValues, link \in GeoValues : AssignGeoID(k, apa, link)
    \/ CompareGeoIDs

SpecGeoID == InitNoComponents /\ [][NextGeoID]_vars

\* ------------------------------------------------------------ properties

AllDestroyed == \A i \in Instances : ~live[i]

\* The buffer of object i holds as many components as its header says.
WellFormed(i) == Len(mem[data_arr_[i]].elems) = get_num_requested_components(i)

\* C1: over any sequence of constructions, copies, moves, assignments and
\* destructions no buffer is released more than once; after a move,
\* destroying both the source and the destination releases the moved buffer
\* exactly once.
C1_NoBufferReleasedTwice == \A a \in Addrs : released[a] <= 1

\* C2: once every object has been destroyed, every buffer an owning
\* construction, a copy or an assignment allocated has been released.
C2_EveryAllocationReleased ==
    (AllDestroyed /\ fault = "none") => \A a \in HeapAddrs : heap[a] = "free"

\* C3: an object constructed from a pointer with copy_from_buffer == false
\* allocates nothing, holds the caller's pointer and does not own it; the
\* destruction of an object that owns nothing releases nothing, and the
\* caller's buffer is never released.
C3_BorrowingNeverReleases ==
    /\ [](released[ExtAddr] = 0)
    /\ [][\A i \in Instances :
            /\ (~live[i] /\ live'[i] /\ lastOp'.op = "WrapBorrow")
                  => /\ data_arr_'[i] = lastOp'.buf
                     /\ ~alloc_'[i]
                     /\ nmalloc' = nmalloc
                     /\ heap' = heap
            /\ (live[i] /\ ~live'[i] /\ ~alloc_[i])
                  => /\ heap' = heap
                     /\ released' = released
                     /\ nfree' = nfree]_vars

\* A borrowing object over the caller's buffer has just been destroyed.
C3_Witness ==
    /\ lastOp.op = "Destroy" /\ lastOp.buf = ExtAddr
    /\ released[ExtAddr] = 0 /\ fault = "none"

\* C4: the object built from a vector E of length n reports
\* get_num_requested_components() == n and at(k) == E[k] for every k < n.
C4_BuildKeepsComponents ==
    (lastOp.op = "Build" /\ fault = "none") =>
        LET i == lastOp.inst
            E == lastOp.arg
        IN  /\ live[i] /\ Usable(data_arr_[i])
            /\ get_num_requested_components(i) = Len(E)
            /\ \A k \in 0..(Len(E) - 1) : SlotValues(mem[data_arr_[i]], k) = {E[k + 1]}

\* An object has just been built from a vector of the greatest length whose
\* first and last components differ.
C4_Witness ==
    /\ lastOp.op = "Build" /\ fault = "none"
    /\ Len(lastOp.arg) = MaxComponents
    /\ lastOp.arg[1] # lastOp.arg[MaxComponents]

\* C5: for a valid object S, the object constructed from
\* S.get_storage_location() with copy_from_buffer == true has S's header
\* members, S's components at every index and S's get_total_size_bytes().
C5_RoundTrip ==
    (lastOp.op = "WrapCopy" /\ fault = "none") =>
        \A S \in Instances \ {lastOp.inst} :
            (Valid(S) /\ WellFormed(S) /\ get_storage_location(S) = lastOp.buf) =>
                LET T == lastOp.inst
                IN  /\ Valid(T)
                    /\ get_storage_location(T) # get_storage_location(S)
                    /\ get_header(T) = get_header(S)
                    /\ \A k \in 0..(get_num_requested_components(S) - 1) :
                          /\ SlotValues(mem[data_arr_[T]], k) = SlotValues(mem[data_arr_[S]], k)
                          /\ k < Len(mem[data_arr_[T]].elems)
                    /\ get_total_size_bytes(T) = get_total_size_bytes(S)

\* An object has just been copied out of the storage location of an owning
\* object that holds components.
C5_Witness ==
    /\ lastOp.op = "WrapCopy" /\ fault = "none"
    /\ \E S \in Instances \ {lastOp.inst} :
          /\ Valid(S) /\ WellFormed(S) /\ alloc_[S]
          /\ get_storage_location(S) = lastOp.buf
          /\ get_num_requested_components(S) = MaxComponents

\* C6: copy construction and copy assignment from an owning object yield an
\* owning object with a buffer of its own, so that stores through one are
\* not seen through the other.
C6_CopyHasItsOwnBuffer ==
    (/\ lastOp.op \in {"CopyConstruct", "CopyAssign"}
     /\ fault = "none"
     /\ lastOp.inst # lastOp.src
     /\ alloc_[lastOp.src])
        => /\ alloc_[lastOp.inst]
           /\ data_arr_[lastOp.inst] # data_arr_[lastOp.src]

\* C7: at(idx) and operator[](idx) with idx >= get_num_requested_components()
\* fail with IndexOutOfRange and read nothing outside the component array.
C7_OutOfRangeIndexRaises ==
    (/\ lastOp.op \in {"at", "operator[]"}
     /\ lastOp.idx >= get_num_requested_components(lastOp.inst))
        => (lastOp.error = "IndexOutOfRange" /\ ~lastOp.oob)

\* C8: construction with copy_from_buffer == true from a buffer that holds
\* fewer components than its header announces fails with TruncatedBuffer,
\* copies nothing and creates no object.
C8_TruncatedBufferRejected ==
    (/\ lastOp.op = "WrapCopy"
     /\ lastOp.buf = ExtAddr
     /\ Len(mem[ExtAddr].elems) < mem[ExtAddr].hdr.num_requested_components)
        => (lastOp.error = "TruncatedBuffer" /\ ~lastOp.oob /\ ~live[lastOp.inst])

\* C9: when malloc cannot supply the block, the construction or assignment
\* fails with an error: nothing is written through the null pointer and no
\* object is left owning a null buffer.
C9_AllocationFailureRaised ==
    /\ fault # "null_write"
    /\ \A i \in Instances : ~(alloc_[i] /\ data_arr_[i] = NULL)

\* C10: after set_error_bit(k, v), get_error_bit(k) returns v; every other
\* error bit, every other header member, the components, every other buffer
\* and the objects' members are as before.
C10_SetErrorBit ==
    /\ []((lastOp.op = "set_error_bit" /\ Valid(lastOp.inst))
             => (get_error_bit(lastOp.inst, lastOp.idx) = (lastOp.ret = 1)))
    /\ [][(lastOp'.op = "set_error_bit" /\ nstore' # nstore) =>
            LET a == data_arr_[lastOp'.inst]
                k == lastOp'.idx
            IN  /\ \A j \in BitPositions \ {k} :
                      (j \in mem'[a].hdr.error_bits) = (j \in mem[a].hdr.error_bits)
                /\ [mem'[a].hdr EXCEPT !.error_bits = {}] = [mem[a].hdr EXCEPT !.error_bits = {}]
                /\ mem'[a].elems = mem[a].elems
                /\ \A b \in Addrs \ {a} : mem'[b] = mem[b]
                /\ UNCHANGED <<live, data_arr_, alloc_, heap>>]_vars

\* Bit 5 of the word with bits 5 and 20 set has just been cleared, over a
\* buffer that holds components.
C10_Witness ==
    /\ lastOp.op = "set_error_bit" /\ lastOp.idx = 5 /\ lastOp.ret = 0
    /\ Valid(lastOp.inst)
    /\ get_error_bits(lastOp.inst) = {20}
    /\ get_num_requested_components(lastOp.inst) = MaxComponents

\* C11: GeoID's operator< is the lexicographic strict total order on
\* (apa_number, link_number): a < b exactly when a.apa_number < b.apa_number,
\* or the apa_numbers are equal and a.link_number < b.link_number; it is
\* irreflexive and transitive, and of two GeoIDs that differ in a member
\* exactly one is less than the other.
C11_GeoIDStrictTotalOrder ==
    less.valid =>
        \A j, k \in GeoIDs :
            LET a == geoid[j]
                b == geoid[k]
            IN  /\ less.ret[j][k] <=>
                      \/ a.apa_number < b.apa_number
                      \/ (a.apa_number = b.apa_number /\ a.link_number < b.link_number)
                /\ ~less.ret[j][j]
                /\ \A l \in GeoIDs : (less.ret[j][k] /\ less.ret[k][l]) => less.ret[j][l]
                /\ (a # b) => (less.ret[j][k] <=> ~less.ret[k][j])

\* GeoID{1,1}, GeoID{1,2} and GeoID{2,0} have just been compared with each
\* other and with themselves: the first two differ in the link_number
\* alone, and the third has the greater apa_number and the smaller
\* link_number.
C11_Witness ==
    /\ less.valid
    /\ geoid[1] = GeoID(1, 1) /\ geoid[2] = GeoID(1, 2) /\ geoid[3] = GeoID(2, 0)
    /\ less.ret[1][2] /\ less.ret[2][3] /\ less.ret[1][3]
    /\ ~less.ret[3][2] /\ ~less.ret[2][2]

====
